---- MODULE Spec2Model ----
(***************************************************************************)
(* Function tools of openai-agents-go (agents/tool_function.go): building  *)
(* a FunctionTool from a typed handler (schema reflection, strict          *)
(* normalisation, the OnInvokeTool closure), the enablement policies, and  *)
(* the handling of invocation errors by the failure error function.        *)
(***************************************************************************)
EXTENDS Integers, Sequences, FiniteSets, TLC

VARIABLES
    built,      \* a FunctionTool has been returned by the constructor
    tool,       \* the FunctionTool value (FunctionTool{} before construction)
    construct,  \* outcome of the last constructor call
    last,       \* what the last offer check / tool call did and returned
    calls       \* number of tool calls made so far

vars == <<built, tool, construct, last, calls>>

\* Number of tool calls explored in one behaviour.
MaxCalls == 2

(***************************************************************************)
(* Errors and text.  A text is a sequence of string pieces; an error is    *)
(* its message text, and the nil error is the empty sequence.              *)
(***************************************************************************)
NoErr == <<>>

\* fmt.Sprintf / fmt.Errorf with one trailing %s or %w verb.
Sprintf(format, text) == <<format>> \o text

Contains(text, part) ==
    \E i \in 0..(Len(text) - Len(part)) :
        part # <<>> /\ SubSeq(text, i + 1, i + Len(part)) = part

(***************************************************************************)
(* Argument types T: what reflect and the schema reflector see of a Go     *)
(* type.                                                                   *)
(***************************************************************************)
Scalar(k) == [kind |-> k, name |-> "", fields |-> <<>>, elem |-> <<>>, enum |-> {}]
EnumT(values) == [Scalar("string") EXCEPT !.enum = values]
Field(n, t, o) == [name |-> n, omitempty |-> o, type |-> t]
StructT(n, fs) == [kind |-> "struct", name |-> n, fields |-> fs, elem |-> <<>>, enum |-> {}]
SliceT(t) == [kind |-> "slice", name |-> "", fields |-> <<>>, elem |-> <<t>>, enum |-> {}]
MapT(t) == [kind |-> "map", name |-> "", fields |-> <<>>, elem |-> <<t>>, enum |-> {}]
\* A type whose schema is a union (anyOf) of the schemas of its variants.
UnionT(ts) == [kind |-> "union", name |-> "", fields |-> <<>>, elem |-> ts, enum |-> {}]

StringT == Scalar("string")
IntT == Scalar("integer")
UnitsT == EnumT({"celsius", "fahrenheit"})

WeatherT == StructT("Weather", <<Field("city", StringT, FALSE), Field("units", UnitsT, TRUE)>>)
OuterT == StructT("Outer", <<Field("loc", WeatherT, TRUE)>>)

FieldTypes ==
    {StringT, UnitsT, WeatherT, OuterT, SliceT(WeatherT), MapT(StringT),
     UnionT(<<StringT, WeatherT>>)}

ArgTypes ==
    {StructT("", <<>>), StructT("Args", <<>>), StructT("", <<Field("a", IntT, FALSE)>>)}
    \cup {StructT("Args", <<Field("a", t, FALSE)>>) : t \in FieldTypes}
    \cup {StructT("Args", <<Field("a", IntT, FALSE), Field("b", OuterT, TRUE)>>)}
    \cup {StringT, MapT(IntT)}

FieldNames(t) == {t.fields[i].name : i \in DOMAIN t.fields}
FieldOf(t, n) == t.fields[CHOOSE i \in DOMAIN t.fields : t.fields[i].name = n]

(***************************************************************************)
(* jsonschema.Schema values.  A nil pointer or nil map is <<>>, a set one  *)
(* is a one-element sequence.                                              *)
(***************************************************************************)
SchemaVersion == "https://json-schema.org/draft/2020-12/schema"

SchemaZero ==
    [boolean |-> <<>>, Version |-> "", Type |-> "", Properties |-> <<>>,
     AdditionalProperties |-> <<>>, Required |-> {}, Items |-> <<>>,
     AnyOf |-> <<>>, Enum |-> {}]

FalseSchema == [SchemaZero EXCEPT !.boolean = <<FALSE>>]

NewProperties == << <<>> >>

RECURSIVE ReflectType(_, _)
ReflectType(reflector, t) ==
    CASE t.kind = "struct" ->
            [SchemaZero EXCEPT
                !.Type = "object",
                !.Properties =
                    << [n \in FieldNames(t) |-> ReflectType(reflector, FieldOf(t, n).type)] >>,
                !.AdditionalProperties =
                    IF reflector.AllowAdditionalProperties THEN <<>> ELSE <<FalseSchema>>,
                !.Required = {n \in FieldNames(t) : ~FieldOf(t, n).omitempty}]
      [] t.kind = "slice" ->
            [SchemaZero EXCEPT !.Type = "array",
                               !.Items = <<ReflectType(reflector, t.elem[1])>>]
      [] t.kind = "map" ->
            [SchemaZero EXCEPT !.Type = "object",
                               !.AdditionalProperties = <<ReflectType(reflector, t.elem[1])>>]
      [] t.kind = "union" ->
            [SchemaZero EXCEPT
                !.AnyOf = [i \in DOMAIN t.elem |-> ReflectType(reflector, t.elem[i])]]
      [] OTHER ->
            [SchemaZero EXCEPT !.Type = t.kind, !.Enum = t.enum]

\* An anonymous empty struct makes the reflector panic.
ReflectPanics(t) == t.kind = "struct" /\ t.name = "" /\ Len(t.fields) = 0

Reflect(reflector, t) == [ReflectType(reflector, t) EXCEPT !.Version = SchemaVersion]

(***************************************************************************)
(* JSON documents (map[string]any): a function from the keys present to    *)
(* their values.  The JSON booleans true and false, as schemas, are the    *)
(* one-key documents [boolean |-> b].                                      *)
(***************************************************************************)
JBool(b) == [boolean |-> b]
JFalse == JBool(FALSE)
IsJBool(m) == DOMAIN m = {"boolean"}

\* util.JSONMap: marshal the schema and unmarshal it into a map; every
\* field of jsonschema.Schema is omitempty.
RECURSIVE JSONMap(_)
JSONMap(s) ==
    IF s.boolean # <<>> THEN JBool(s.boolean[1])
    ELSE (IF s.Version # "" THEN "$schema" :> s.Version ELSE <<>>)
      @@ (IF s.Type # "" THEN "type" :> s.Type ELSE <<>>)
      @@ (IF s.Properties # <<>>
          THEN "properties" :>
                  [n \in DOMAIN s.Properties[1] |-> JSONMap(s.Properties[1][n])]
          ELSE <<>>)
      @@ (IF s.AdditionalProperties # <<>>
          THEN "additionalProperties" :> JSONMap(s.AdditionalProperties[1])
          ELSE <<>>)
      @@ (IF s.Required # {} THEN "required" :> s.Required ELSE <<>>)
      @@ (IF s.Items # <<>> THEN "items" :> JSONMap(s.Items[1]) ELSE <<>>)
      @@ (IF s.AnyOf # <<>>
          THEN "anyOf" :> [i \in DOMAIN s.AnyOf |-> JSONMap(s.AnyOf[i])]
          ELSE <<>>)
      @@ (IF s.Enum # {} THEN "enum" :> s.Enum ELSE <<>>)

IsObjectNode(m) == "type" \in DOMAIN m /\ m["type"] = "object"

IsJFalse(m) == IsJBool(m) /\ ~m["boolean"]

(***************************************************************************)
(* EnsureStrictJSONSchema: the strictness normaliser.  Every object node   *)
(* gets required = all its property names and additionalProperties =       *)
(* false, recursively through properties, array items and union branches;  *)
(* scalars and enums are left as they are; a free-form map (an object      *)
(* whose additionalProperties is a value schema) has no strict form.       *)
(***************************************************************************)
RECURSIVE HasStrictForm(_)
HasStrictForm(m) ==
    \/ IsJBool(m)
    \/ /\ ~(/\ IsObjectNode(m)
            /\ "additionalProperties" \in DOMAIN m
            /\ ~IsJBool(m["additionalProperties"]))
       /\ "properties" \in DOMAIN m =>
             \A n \in DOMAIN m["properties"] : HasStrictForm(m["properties"][n])
       /\ "items" \in DOMAIN m => HasStrictForm(m["items"])
       /\ "anyOf" \in DOMAIN m =>
             \A i \in DOMAIN m["anyOf"] : HasStrictForm(m["anyOf"][i])

RECURSIVE Strictify(_)
Strictify(m) ==
    IF IsJBool(m) THEN m
    ELSE LET props == IF "properties" \in DOMAIN m
                      THEN [n \in DOMAIN m["properties"] |-> Strictify(m["properties"][n])]
                      ELSE <<>>
         IN (IF IsObjectNode(m)
             THEN ("properties" :> props)
                  @@ ("required" :> DOMAIN props)
                  @@ ("additionalProperties" :> JFalse)
             ELSE IF "properties" \in DOMAIN m THEN "properties" :> props ELSE <<>>)
            @@ (IF "items" \in DOMAIN m THEN "items" :> Strictify(m["items"]) ELSE <<>>)
            @@ (IF "anyOf" \in DOMAIN m
                THEN "anyOf" :> [i \in DOMAIN m["anyOf"] |-> Strictify(m["anyOf"][i])]
                ELSE <<>>)
            @@ m

EnsureStrictJSONSchema(m) ==
    IF HasStrictForm(m)
    THEN [schema |-> Strictify(m), err |-> NoErr]
    ELSE [schema |-> <<>>,
          err |-> <<"additionalProperties should not be set for object types in strict mode">>]

(***************************************************************************)
(* Wire arguments: a JSON text as a sequence of tokens.                    *)
(***************************************************************************)
Tok(t, k, v) == [t |-> t, k |-> k, v |-> v]
LB == Tok("{", "", "")
RB == Tok("}", "", "")
COMMA == Tok(",", "", "")
NULL == Tok("null", "", "")
\* "k": v, where v is a number, a string, an object or an array literal.
KV(k, v) == Tok("kv", k, v)

FullPayloads ==
    {<<NULL>>, <<LB, RB, RB>>,
     <<LB, KV("a", "\"s\""), RB>>, <<LB, KV("a", "{}"), RB>>,
     <<LB, KV("a", "1"), COMMA, KV("b", "{}"), RB>>}

\* Every payload and every truncation of it.
Payloads == UNION {{SubSeq(p, 1, n) : n \in 0..Len(p)} : p \in FullPayloads}

Contexts == {"ctx1", "ctx2"}
Agents == {"agentA", "agentB"}

WellFormed(p) ==
    \/ p = <<NULL>>
    \/ /\ Len(p) >= 2 /\ p[1] = LB /\ p[Len(p)] = RB
       /\ Len(p) = 2 \/ Len(p) % 2 = 1
       /\ \A i \in 2..(Len(p) - 1) :
             IF i % 2 = 0 THEN p[i].t = "kv" ELSE p[i] = COMMA

\* Whether encoding/json stores a value literal into a Go value of type t.
Accepts(t, v) ==
    CASE t.kind = "integer" -> v = "1"
      [] t.kind = "string" -> v = "\"s\""
      [] t.kind \in {"struct", "map"} -> v = "{}"
      [] t.kind = "slice" -> v = "[]"
      [] OTHER -> TRUE

\* json.Unmarshal([]byte(arguments), &args): the error, and the decoded
\* value (for a struct, each field's literal, "" when left at its zero).
Unmarshal(t, p) ==
    LET kvs == {i \in DOMAIN p : p[i].t = "kv"}
        known(i) == t.kind = "struct" /\ p[i].k \in FieldNames(t)
        bad(i) == CASE t.kind = "struct" ->
                          known(i) /\ ~Accepts(FieldOf(t, p[i].k).type, p[i].v)
                    [] t.kind = "map" -> ~Accepts(t.elem[1], p[i].v)
                    [] OTHER -> FALSE
        lastOf(n) == {i \in kvs : p[i].k = n /\ \A j \in kvs : p[j].k = n => j <= i}
        zero == IF t.kind = "struct" THEN [n \in FieldNames(t) |-> ""] ELSE <<>>
    IN  IF ~WellFormed(p)
        THEN [err |-> IF Len(p) = 0 \/ p[Len(p)] \notin {RB, NULL}
                      THEN <<"unexpected end of JSON input">>
                      ELSE <<"invalid character '}' after top-level value">>,
              args |-> zero]
        ELSE IF p # <<NULL>> /\ t.kind \notin {"struct", "map", "union"}
        THEN [err |-> <<"json: cannot unmarshal object into Go value">>, args |-> zero]
        ELSE IF \E i \in kvs : bad(i)
        THEN [err |-> <<"json: cannot unmarshal value into Go struct field">>, args |-> zero]
        ELSE [err |-> NoErr,
              args |-> IF t.kind = "struct"
                       THEN [n \in FieldNames(t) |->
                               IF lastOf(n) = {} THEN ""
                               ELSE p[CHOOSE i \in lastOf(n) : TRUE].v]
                       ELSE <<>>]

(***************************************************************************)
(* Handlers, enablers and error functions a program may supply.            *)
(***************************************************************************)
\* The value nil of type any, and a non-nil value with its text.
NilValue == [isNil |-> TRUE, text |-> <<>>]
Value(text) == [isNil |-> FALSE, text |-> text]

Handlers == {"getWeather", "alwaysFails"}

\* handler(ctx, args): getWeather fails on a = 1 and otherwise reports for
\* the context it was given; alwaysFails returns its zero result and an error.
Handler(h, ctx, args) ==
    IF h = "getWeather" /\ ~("a" \in DOMAIN args /\ args["a"] = "1")
    THEN [val |-> Value(<<"sunny", ctx>>), err |-> NoErr]
    ELSE [val |-> Value(<<>>), err |-> <<"upstream unavailable", ctx>>]

\* Predicates that FunctionToolEnablerFunc may wrap.
Predicates == {"onlyAgentA", "failsOnCtx2"}

Predicate(f, ctx, agent) ==
    IF f = "onlyAgentA"
    THEN [enabled |-> agent = "agentA", err |-> NoErr]
    ELSE IF ctx = "ctx2"
         THEN [enabled |-> TRUE, err |-> <<"enablement lookup failed">>]
         ELSE [enabled |-> TRUE, err |-> NoErr]

FunctionToolEnabledFlag(isEnabled) == [kind |-> "flag", isEnabled |-> isEnabled, f |-> ""]
NewFunctionToolEnabledFlag(isEnabled) == FunctionToolEnabledFlag(isEnabled)
FunctionToolEnabled == NewFunctionToolEnabledFlag(TRUE)
FunctionToolDisabled == NewFunctionToolEnabledFlag(FALSE)
FunctionToolEnablerFunc(f) == [kind |-> "func", isEnabled |-> FALSE, f |-> f]

Enablers ==
    {FunctionToolEnabled, FunctionToolDisabled}
    \cup {FunctionToolEnablerFunc(f) : f \in Predicates}

FlagIsEnabled(e, ctx, agent) == [enabled |-> e.isEnabled, err |-> NoErr]

\* A delegating enabler that reports a failing predicate as "disabled".
FuncIsEnabled_SwallowsError(e, ctx, agent) ==
    LET r == Predicate(e.f, ctx, agent)
    IN  IF r.err # NoErr THEN [enabled |-> FALSE, err |-> NoErr] ELSE r

FuncIsEnabled(e, ctx, agent) == Predicate(e.f, ctx, agent)

\* e.IsEnabled(ctx, agent), dispatched on the enabler's dynamic type.
IsEnabled(e, ctx, agent) ==
    IF e.kind = "flag" THEN FlagIsEnabled(e, ctx, agent) ELSE FuncIsEnabled(e, ctx, agent)

MaskingMessage == "An error occurred while running the tool. Please try again. Error: "

\* A default error function that returns the generic message alone.
DefaultToolErrorFunction_Generic(ctx, err) ==
    [val |-> Value(<<"An error occurred while running the tool. Please try again.">>),
     err |-> NoErr]

DefaultToolErrorFunction(ctx, err) ==
    [val |-> Value(Sprintf(MaskingMessage, err)), err |-> NoErr]

\* Custom ToolErrorFunctions: one rewrites the error, one fails itself.
CustomErrorFunctions == {"explain", "giveUp"}

ToolErrorFunction(fn, ctx, err) ==
    CASE fn = "DefaultToolErrorFunction" -> DefaultToolErrorFunction(ctx, err)
      [] fn = "explain" -> [val |-> Value(<<"The tool is unavailable.">>), err |-> NoErr]
      [] OTHER -> [val |-> NilValue, err |-> <<"failure handler failed", ctx>>]

\* Values of FunctionTool.FailureErrorFunction: a nil pointer, a pointer to
\* a nil ToolErrorFunction, a pointer to a function.
FailureErrorFunctions == {<<>>, <<"nil">>} \cup {<<fn>> : fn \in CustomErrorFunctions}

(***************************************************************************)
(* FunctionTool and its constructors.                                      *)
(***************************************************************************)
FunctionToolZero ==
    [Name |-> "", Description |-> "", ParamsJSONSchema |-> <<>>,
     OnInvokeTool |-> <<>>, FailureErrorFunction |-> <<>>,
     StrictJSONSchema |-> <<>>, IsEnabled |-> <<>>]

Reflector ==
    [ExpandedStruct |-> TRUE,
     RequiredFromJSONSchemaTags |-> FALSE,
     AllowAdditionalProperties |-> FALSE]

\* Schema derivation without the special case for an anonymous empty struct.
DeriveSchema_NoEmptyStructCase(T) ==
    [panic |-> ReflectPanics(T), schema |-> Reflect(Reflector, T)]

\* The schema of the argument type: written out by hand for an anonymous
\* empty struct, reflected otherwise.
DeriveSchema(T) ==
    IF T.kind = "struct" /\ T.name = "" /\ Len(T.fields) = 0
    THEN [panic |-> FALSE,
          schema |-> [SchemaZero EXCEPT
                         !.Version = SchemaVersion,
                         !.Type = "object",
                         !.Properties = NewProperties,
                         !.AdditionalProperties =
                             IF ~Reflector.AllowAdditionalProperties
                             THEN <<FalseSchema>> ELSE <<>>]]
    ELSE [panic |-> ReflectPanics(T), schema |-> Reflect(Reflector, T)]

\* The schema map returned as reflected, with no strictness pass.
StrictSchemaMap_Skipped(schema) == [schema |-> JSONMap(schema), err |-> NoErr]

\* The schema as a map, made strict; err is the constructor's error.
StrictSchemaMap(schema) ==
    LET strict == EnsureStrictJSONSchema(JSONMap(schema))
    IN  IF strict.err # NoErr
        THEN [schema |-> <<>>,
              err |-> Sprintf("failed to ensure strictness of function tool json schema: ",
                              strict.err)]
        ELSE [schema |-> strict.schema, err |-> NoErr]

\* A constructor that also fills IsEnabled, with the disabled flag.
FunctionToolOf_Disabled(name, description, schemaMap, T, handler) ==
    [Name |-> name,
     Description |-> description,
     ParamsJSONSchema |-> schemaMap,
     OnInvokeTool |-> <<[T |-> T, handler |-> handler]>>,
     FailureErrorFunction |-> <<>>,
     StrictJSONSchema |-> <<TRUE>>,
     IsEnabled |-> <<FunctionToolDisabled>>]

\* The FunctionTool literal the constructor returns; OnInvokeTool is the
\* closure over T and the handler.
FunctionToolOf(name, description, schemaMap, T, handler) ==
    [Name |-> name,
     Description |-> description,
     ParamsJSONSchema |-> schemaMap,
     OnInvokeTool |-> <<[T |-> T, handler |-> handler]>>,
     FailureErrorFunction |-> <<>>,
     StrictJSONSchema |-> <<TRUE>>,
     IsEnabled |-> <<>>]

SafeNewFunctionTool(name, description, T, handler) ==
    LET derived == DeriveSchema(T)
        strict == StrictSchemaMap(derived.schema)
    IN  IF derived.panic
        THEN [panic |-> TRUE, tool |-> FunctionToolZero, err |-> NoErr]
        ELSE IF strict.err # NoErr
        THEN [panic |-> FALSE, tool |-> FunctionToolZero, err |-> strict.err]
        ELSE [panic |-> FALSE,
              tool |-> FunctionToolOf(name, description, strict.schema, T, handler),
              err |-> NoErr]

NewFunctionTool(name, description, T, handler) ==
    LET r == SafeNewFunctionTool(name, description, T, handler)
    IN  IF r.err # NoErr THEN [r EXCEPT !.panic = TRUE] ELSE r

\* A closure that calls the handler with zero arguments when decoding fails.
OnInvokeTool_IgnoresDecodeError(closure, ctx, arguments) ==
    LET d == Unmarshal(closure.T, arguments)
        r == Handler(closure.handler, ctx, d.args)
    IN  [val |-> r.val, err |-> r.err, handled |-> <<[ctx |-> ctx, args |-> d.args]>>]

\* A closure that returns the decoder's error as it is.
OnInvokeTool_BareDecodeError(closure, ctx, arguments) ==
    LET d == Unmarshal(closure.T, arguments)
        r == Handler(closure.handler, ctx, d.args)
    IN  IF d.err # NoErr
        THEN [val |-> NilValue, err |-> d.err, handled |-> <<>>]
        ELSE [val |-> r.val, err |-> r.err,
              handled |-> <<[ctx |-> ctx, args |-> d.args]>>]

\* A closure that wraps the handler's error.
OnInvokeTool_WrapsHandlerError(closure, ctx, arguments) ==
    LET d == Unmarshal(closure.T, arguments)
        r == Handler(closure.handler, ctx, d.args)
    IN  IF d.err # NoErr
        THEN [val |-> NilValue,
              err |-> Sprintf("failed to parse arguments: ", d.err),
              handled |-> <<>>]
        ELSE [val |-> r.val,
              err |-> IF r.err # NoErr THEN Sprintf("tool failed: ", r.err) ELSE NoErr,
              handled |-> <<[ctx |-> ctx, args |-> d.args]>>]

\* A closure that refuses to run while the tool's enabler does not report
\* it enabled.
OnInvokeTool_ChecksEnabled(closure, ctx, arguments) ==
    LET d == Unmarshal(closure.T, arguments)
        r == Handler(closure.handler, ctx, d.args)
        e == IF tool.IsEnabled = <<>>
             THEN [enabled |-> TRUE, err |-> NoErr]
             ELSE IsEnabled(tool.IsEnabled[1], ctx, "agentA")
    IN  IF d.err # NoErr
        THEN [val |-> NilValue,
              err |-> Sprintf("failed to parse arguments: ", d.err),
              handled |-> <<>>]
        ELSE IF ~e.enabled \/ e.err # NoErr
        THEN [val |-> NilValue, err |-> <<"tool is disabled">>, handled |-> <<>>]
        ELSE [val |-> r.val, err |-> r.err,
              handled |-> <<[ctx |-> ctx, args |-> d.args]>>]

\* The closure bound to OnInvokeTool: what it returns and the handler
\* calls it made.
OnInvokeTool(closure, ctx, arguments) ==
    LET d == Unmarshal(closure.T, arguments)
        r == Handler(closure.handler, ctx, d.args)
    IN  IF d.err # NoErr
        THEN [val |-> NilValue,
              err |-> Sprintf("failed to parse arguments: ", d.err),
              handled |-> <<>>]
        ELSE [val |-> r.val, err |-> r.err,
              handled |-> <<[ctx |-> ctx, args |-> d.args]>>]

(***************************************************************************)
(* What the caller of a FunctionTool does with its optional fields.        *)
(***************************************************************************)
\* The offer check: IsEnabled defaults to true when omitted.
OfferCheck(t, ctx, agent) ==
    IF t.IsEnabled = <<>>
    THEN [enabled |-> TRUE, err |-> NoErr]
    ELSE IsEnabled(t.IsEnabled[1], ctx, agent)

\* The function that handles invocation errors: the default one when
\* FailureErrorFunction is not set, "nil" when it points to a nil function.
FailureFunctionOf(t) ==
    IF t.FailureErrorFunction = <<>>
    THEN "DefaultToolErrorFunction"
    ELSE t.FailureErrorFunction[1]

\* A runner that masks the error of a failing failure error function.
RunTool_MasksPolicyError(t, ctx, arguments) ==
    LET inv == OnInvokeTool(t.OnInvokeTool[1], ctx, arguments)
        fn == FailureFunctionOf(t)
        translated == ToolErrorFunction(fn, ctx, inv.err)
        applied == <<[fn |-> fn, err |-> inv.err]>>
    IN  IF inv.err = NoErr
        THEN [invoke |-> inv, policy |-> <<>>, result |-> inv.val, fatal |-> NoErr]
        ELSE IF fn = "nil"
        THEN [invoke |-> inv, policy |-> <<>>, result |-> NilValue, fatal |-> inv.err]
        ELSE IF translated.err # NoErr
        THEN [invoke |-> inv,
              policy |-> applied \o <<[fn |-> "DefaultToolErrorFunction",
                                       err |-> translated.err]>>,
              result |-> DefaultToolErrorFunction(ctx, translated.err).val,
              fatal |-> NoErr]
        ELSE [invoke |-> inv, policy |-> applied, result |-> translated.val,
              fatal |-> NoErr]

\* One tool call: OnInvokeTool, then, when it returns an error, the failure
\* error function, whose value is sent back and whose error is fatal.
RunTool(t, ctx, arguments) ==
    LET inv == OnInvokeTool(t.OnInvokeTool[1], ctx, arguments)
        fn == FailureFunctionOf(t)
        translated == ToolErrorFunction(fn, ctx, inv.err)
        applied == <<[fn |-> fn, err |-> inv.err]>>
    IN  IF inv.err = NoErr
        THEN [invoke |-> inv, policy |-> <<>>, result |-> inv.val, fatal |-> NoErr]
        ELSE IF fn = "nil"
        THEN [invoke |-> inv, policy |-> <<>>, result |-> NilValue, fatal |-> inv.err]
        ELSE IF translated.err # NoErr
        THEN [invoke |-> inv, policy |-> applied, result |-> NilValue,
              fatal |-> translated.err]
        ELSE [invoke |-> inv, policy |-> applied, result |-> translated.val,
              fatal |-> NoErr]

(***************************************************************************)
(* The state machine.                                                      *)
(***************************************************************************)
Names == {"get_weather"}
Descriptions == {"Get current weather"}

NoInvoke == [val |-> NilValue, err |-> NoErr, handled |-> <<>>]

NoLast ==
    [op |-> "none", ctx |-> "", agent |-> "", arguments |-> <<>>,
     invoke |-> NoInvoke, policy |-> <<>>, result |-> NilValue, fatal |-> NoErr,
     enabled |-> FALSE, offerErr |-> NoErr]

NoConstruct == [via |-> "", T |-> StringT, panic |-> FALSE, err |-> NoErr]

Init ==
    /\ built = FALSE
    /\ tool = FunctionToolZero
    /\ construct = NoConstruct
    /\ last = NoLast
    /\ calls = 0

Constructed(via, T, r) ==
    /\ built' = (~r.panic /\ r.err = NoErr)
    /\ tool' = r.tool
    /\ construct' = [via |-> via, T |-> T, panic |-> r.panic, err |-> r.err]
    /\ last' = NoLast
    /\ UNCHANGED calls

CallSafeNewFunctionTool ==
    /\ ~built
    /\ \E name \in Names, description \in Descriptions, T \in ArgTypes, h \in Handlers :
          Constructed("SafeNewFunctionTool", T,
                      SafeNewFunctionTool(name, description, T, h))

CallNewFunctionTool ==
    /\ ~built
    /\ \E name \in Names, description \in Descriptions, T \in ArgTypes, h \in Handlers :
          Constructed("NewFunctionTool", T, NewFunctionTool(name, description, T, h))

SetFailureErrorFunction ==
    /\ built
    /\ \E p \in FailureErrorFunctions :
          tool' = [tool EXCEPT !.FailureErrorFunction = p]
    /\ last' = [NoLast EXCEPT !.op = "configure"]
    /\ UNCHANGED <<built, construct, calls>>

SetIsEnabled ==
    /\ built
    /\ \E e \in Enablers : tool' = [tool EXCEPT !.IsEnabled = <<e>>]
    /\ last' = [NoLast EXCEPT !.op = "configure"]
    /\ UNCHANGED <<built, construct, calls>>

Offer ==
    /\ built
    /\ \E ctx \in Contexts, agent \in Agents :
          LET r == OfferCheck(tool, ctx, agent)
          IN  last' = [NoLast EXCEPT !.op = "offer", !.ctx = ctx, !.agent = agent,
                                     !.enabled = r.enabled, !.offerErr = r.err]
    /\ UNCHANGED <<built, tool, construct, calls>>

Call ==
    /\ built
    /\ calls < MaxCalls
    /\ \E ctx \in Contexts, arguments \in Payloads :
          LET r == RunTool(tool, ctx, arguments)
          IN  last' = [NoLast EXCEPT !.op = "call", !.ctx = ctx, !.arguments = arguments,
                                     !.invoke = r.invoke, !.policy = r.policy,
                                     !.result = r.result, !.fatal = r.fatal]
    /\ calls' = calls + 1
    /\ UNCHANGED <<built, tool, construct>>

Next ==
    \/ CallSafeNewFunctionTool
    \/ CallNewFunctionTool
    \/ SetFailureErrorFunction
    \/ SetIsEnabled
    \/ Offer
    \/ Call

Spec == Init /\ [][Next]_vars

(***************************************************************************)
(* Properties.                                                             *)
(***************************************************************************)
\* The last operation was a tool call, and what its closure decoded.
Called == last.op = "call"
Decoded == Unmarshal(tool.OnInvokeTool[1].T, last.arguments)
DecodeFailed == Called /\ Decoded.err # NoErr
\* The handler ran and returned an error; HandlerReturn is what it returned.
HandlerReturn == Handler(tool.OnInvokeTool[1].handler, last.ctx, Decoded.args)
HandlerFailed == Called /\ Decoded.err = NoErr /\ HandlerReturn.err # NoErr

\* Every object node of a schema document, at every depth, requires all of
\* its properties and forbids additional ones.
RECURSIVE AllObjectsStrict(_)
AllObjectsStrict(m) ==
    \/ IsJBool(m)
    \/ /\ IsObjectNode(m) =>
             /\ {"properties", "required", "additionalProperties"} \subseteq DOMAIN m
             /\ m["required"] = DOMAIN m["properties"]
             /\ IsJFalse(m["additionalProperties"])
       /\ "properties" \in DOMAIN m =>
             \A n \in DOMAIN m["properties"] : AllObjectsStrict(m["properties"][n])
       /\ "items" \in DOMAIN m => AllObjectsStrict(m["items"])
       /\ "anyOf" \in DOMAIN m =>
             \A i \in DOMAIN m["anyOf"] : AllObjectsStrict(m["anyOf"][i])

\* C1: the schema of every tool either constructor returns is strict at
\* every object node: required equals the property names and additional
\* properties are forbidden, through properties, items and union branches.
C1_SchemaStrictEverywhere == built => AllObjectsStrict(tool.ParamsJSONSchema)

\* A tool for struct{a int; b Outer} is built: its object node two levels
\* down, whose reflected schema required only "city", requires both fields.
C1_Witness ==
    /\ built
    /\ construct.T = StructT("Args", <<Field("a", IntT, FALSE), Field("b", OuterT, TRUE)>>)
    /\ tool.ParamsJSONSchema["properties"]["b"]["properties"]["loc"]["required"]
          = {"city", "units"}
    /\ tool.ParamsJSONSchema["required"] = {"a", "b"}

\* C2: a payload that does not decode into T makes OnInvokeTool return nil
\* and the wrapped decoding error, without any call of the handler.
C2_DecodeErrorSkipsHandler ==
    DecodeFailed =>
        /\ last.invoke.handled = <<>>
        /\ last.invoke.val = NilValue
        /\ last.invoke.err # NoErr
        /\ last.invoke.err[1] = "failed to parse arguments: "

\* A truncated object was passed and the handler was not called.
C2_Witness ==
    /\ Called
    /\ last.arguments = <<LB, KV("a", "1"), COMMA>>
    /\ last.invoke.handled = <<>>
    /\ last.invoke.err = <<"failed to parse arguments: ", "unexpected end of JSON input">>

\* C3 as stated: with FailureErrorFunction unset, a handler error yields the
\* generic message without the raw error text, and no fatal error.
C3_Original ==
    (HandlerFailed /\ tool.FailureErrorFunction = <<>>) =>
        /\ ~last.result.isNil
        /\ last.result.text[1] = MaskingMessage
        /\ ~Contains(last.result.text, HandlerReturn.err)
        /\ last.fatal = NoErr

\* C3: with FailureErrorFunction unset, a handler error yields the generic
\* message followed by the text of the handler's error, and no fatal error.
C3_DefaultMessageCarriesError ==
    (HandlerFailed /\ tool.FailureErrorFunction = <<>>) =>
        /\ ~last.result.isNil
        /\ last.result.text = <<MaskingMessage>> \o HandlerReturn.err
        /\ Contains(last.result.text, HandlerReturn.err)
        /\ last.fatal = NoErr

\* The handler failed under the default failure function.
C3_Witness ==
    /\ HandlerFailed
    /\ tool.FailureErrorFunction = <<>>
    /\ last.invoke.handled # <<>>
    /\ last.result.text = <<MaskingMessage, "upstream unavailable", last.ctx>>

\* C4: with FailureErrorFunction pointing to a nil function, a handler error
\* ends the call with that very error as the fatal error and no result.
C4_PassThroughIsFatal ==
    (HandlerFailed /\ tool.FailureErrorFunction = <<"nil">>) =>
        /\ last.fatal = HandlerReturn.err
        /\ last.result = NilValue
        /\ last.policy = <<>>

\* The handler failed under the pass-through setting.
C4_Witness ==
    /\ HandlerFailed
    /\ tool.FailureErrorFunction = <<"nil">>
    /\ last.fatal = <<"upstream unavailable", last.ctx>>

C6_OfferReturnsPolicyOutcome ==
    (last.op = "offer" /\ tool.IsEnabled # <<>>) =>
        LET e == tool.IsEnabled[1]
        IN  /\ e = FunctionToolDisabled => (~last.enabled /\ last.offerErr = NoErr)
            /\ e = FunctionToolEnabled => (last.enabled /\ last.offerErr = NoErr)
            /\ e.kind = "func" =>
                  /\ last.enabled = Predicate(e.f, last.ctx, last.agent).enabled
                  /\ last.offerErr = Predicate(e.f, last.ctx, last.agent).err
            /\ (e = FunctionToolEnablerFunc("failsOnCtx2") /\ last.ctx = "ctx2") =>
                  last.offerErr = <<"enablement lookup failed">>

\* An offer check on a delegating enabler whose predicate failed.
C6_Witness ==
    /\ last.op = "offer"
    /\ tool.IsEnabled = <<FunctionToolEnablerFunc("failsOnCtx2")>>
    /\ last.ctx = "ctx2"
    /\ last.offerErr = <<"enablement lookup failed">>

\* C7: for a struct type without fields, named or anonymous, construction
\* succeeds and the schema is an object with properties {}, required {} and
\* additionalProperties false.
C7_EmptyStructSchema ==
    (construct.via # "" /\ construct.T.kind = "struct" /\ Len(construct.T.fields) = 0) =>
        /\ built /\ ~construct.panic /\ construct.err = NoErr
        /\ IsObjectNode(tool.ParamsJSONSchema)
        /\ {"properties", "required", "additionalProperties"}
              \subseteq DOMAIN tool.ParamsJSONSchema
        /\ DOMAIN tool.ParamsJSONSchema["properties"] = {}
        /\ tool.ParamsJSONSchema["required"] = {}
        /\ IsJFalse(tool.ParamsJSONSchema["additionalProperties"])

\* A tool was built for the anonymous empty struct.
C7_Witness ==
    /\ built
    /\ construct.T = StructT("", <<>>)
    /\ DOMAIN tool.ParamsJSONSchema["properties"] = {}

\* C8: a tool as the constructor returned it has StrictJSONSchema set to
\* true, is offered to every agent in every context with no error, and has
\* the default error function as its failure error function.
C8_ConstructorDefaults ==
    /\ (built /\ last.op = "none") =>
          /\ tool.StrictJSONSchema = <<TRUE>>
          /\ \A ctx \in Contexts, agent \in Agents :
                OfferCheck(tool, ctx, agent) = [enabled |-> TRUE, err |-> NoErr]
          /\ FailureFunctionOf(tool) = "DefaultToolErrorFunction"
    /\ (last.op = "offer" /\ tool.IsEnabled = <<>>) =>
          (last.enabled /\ last.offerErr = NoErr)

\* A tool fresh from the constructor.
C8_Witness ==
    /\ built
    /\ last.op = "none"
    /\ construct.via = "SafeNewFunctionTool"
    /\ tool.IsEnabled = <<>>
    /\ tool.FailureErrorFunction = <<>>

\* C9: when the handler fails and the failure error function itself returns
\* an error, that error is the call's fatal error, there is no result, and
\* no error function is applied to it; and a call whose handler failed ends
\* with a result or with a fatal error, never both.
C9_PolicyErrorIsFatal ==
    HandlerFailed =>
        LET fn == FailureFunctionOf(tool)
            out == ToolErrorFunction(fn, last.ctx, last.invoke.err)
        IN  /\ (fn # "nil" /\ out.err # NoErr) =>
                  /\ last.fatal = out.err
                  /\ last.result = NilValue
                  /\ last.policy = <<[fn |-> fn, err |-> last.invoke.err]>>
            /\ (last.fatal # NoErr) # (~last.result.isNil)

\* The handler failed and so did the failure error function.
C9_Witness ==
    /\ HandlerFailed
    /\ tool.FailureErrorFunction = <<"giveUp">>
    /\ last.fatal = <<"failure handler failed", last.ctx>>
    /\ last.result.isNil

\* C10: whatever the enabler is or returns, a call with a decodable payload
\* runs the handler exactly once, with the caller's context and the decoded
\* arguments, and OnInvokeTool returns the handler's value and error as
\* they are.
C10_InvokeIgnoresEnablement ==
    (Called /\ Decoded.err = NoErr) =>
        /\ Len(last.invoke.handled) = 1
        /\ last.invoke.handled[1].ctx = last.ctx
        /\ last.invoke.handled[1].args = Decoded.args
        /\ last.invoke.val = HandlerReturn.val
        /\ last.invoke.err = HandlerReturn.err

\* The handler ran although the tool's enabler says "disabled".
C10_Witness ==
    /\ Called
    /\ tool.IsEnabled = <<FunctionToolDisabled>>
    /\ Len(last.invoke.handled) = 1
    /\ last.invoke.val = Value(<<"sunny", last.ctx>>)

====
